---- MODULE Spec2Model ----
(***************************************************************************)
(* A model of lca-app.py, a Streamlit script.  Streamlit re-executes the    *)
(* whole script, top to bottom, on every user interaction; the only state   *)
(* that survives from one run to the next is st.session_state.inv and the   *)
(* value of the widgets (the sidebar radio main_menu).  One action of the   *)
(* model is one interaction followed by the complete script run it causes.  *)
(*                                                                          *)
(* Python floats are modelled as exact rationals <<n, d>> in lowest terms   *)
(* with d > 0; a float division by zero raises ZeroDivisionError, as in     *)
(* Python.  The rounding error of floats shows in two places: which way a   *)
(* value that lies on or next to the middle between two decimals is         *)
(* formatted (see Fmt and ErrorBound), and whether a total whose terms      *)
(* cancel exactly is the float 0.0 or a tiny residue (see Raises126).       *)
(* Overflow of floats is outside the model.                                 *)
(***************************************************************************)
EXTENDS Integers, Sequences, FiniteSets, TLC

VARIABLES
    inv,        \* st.session_state.inv: field name -> number
    main_menu,  \* value of the sidebar radio
    metrics,    \* the metrics dict built by the last run (lines 71-82), or NoMetrics
    shown,      \* the numbers the last run's page section wrote, in order
    exc,        \* exception that ended the last run, or "None"
    exc_line,   \* source line that raised it, or 0
    edits,      \* number of widget edits made so far (bounded by MaxEdits)
    stale_widget \* the field whose number_input on screen was created with a
                 \* value that inv no longer holds, or "none"

vars == <<inv, main_menu, metrics, shown, exc, exc_line, edits, stale_widget>>

\* Bound of the model: number_input edits in one session.
MaxEdits == 2

-----------------------------------------------------------------------------
(* Arithmetic of the numbers the script computes with.                      *)

Abs(x) == IF x < 0 THEN -x ELSE x

RECURSIVE GCD(_, _)
GCD(a, b) == IF b = 0 THEN a ELSE GCD(b, a % b)

\* The rational n/d (d # 0) in lowest terms with a positive denominator.
Norm(n, d) ==
    LET s == IF d < 0 THEN -1 ELSE 1
        g == GCD(Abs(n), Abs(d))
    IN  <<(s * n) \div g, (s * d) \div g>>

Zero == <<0, 1>>
Hundred == <<100, 1>>

RAdd(a, b) == Norm(a[1] * b[2] + b[1] * a[2], a[2] * b[2])
RMul(a, b) == Norm(a[1] * b[1], a[2] * b[2])
\* a / b for b # 0; the caller raises ZeroDivisionError when b = 0.
RDiv(a, b) == Norm(a[1] * b[2], a[2] * b[1])
RLe(a, b) == a[1] * b[2] <= b[1] * a[2]
RLt(a, b) == a[1] * b[2] < b[1] * a[2]
IsZero(a) == a[1] = 0

RECURSIVE Pow10(_)
Pow10(k) == IF k = 0 THEN 1 ELSE 10 * Pow10(k - 1)

RECURSIVE Pow2(_)
Pow2(k) == IF k = 0 THEN 1 ELSE 2 * Pow2(k - 1)

\* The least integer that is not below the rational a.
Ceil(a) == -((-a[1]) \div a[2])

RAbs(a) == <<Abs(a[1]), a[2]>>

\* a / b for a >= 0 and b > 0, as RDiv, with the common factors taken out
\* before the products are formed.
Ratio(a, b) ==
    LET g == GCD(a[1], b[1])
        h == GCD(a[2], b[2])
    IN  IF IsZero(a) THEN Zero
        ELSE Norm((a[1] \div g) * (b[2] \div h), (a[2] \div h) * (b[1] \div g))

\* The product of the naturals a and b is a number the model can hold.
Fits(a, b) == b = 0 \/ a <= 2147483647 \div b

Half(n) == (n + 1) \div 2

\* A bound on the rounding error of a float: <<b, s>> stands for b / 2^s, a
\* number that is not below x * y / 2^p (x, y naturals from 1).  The product
\* is taken as it is when the model can hold it; else the larger factor is
\* halved, rounding up, and s lowered by one, until it can.
RECURSIVE ErrorBound(_, _, _)
ErrorBound(x, y, p) ==
    IF Fits(x, y) THEN <<x * y, p>>
    ELSE IF x >= y THEN ErrorBound(Half(x), y, p - 1)
    ELSE ErrorBound(x, Half(y), p - 1)

\* l * 2^k <= d * b for naturals from 1, decided exactly when the model can
\* hold d * b and in favour of TRUE by a hair when it cannot.
RECURSIVE LeScaled(_, _, _, _)
LeScaled(l, k, d, b) ==
    IF Fits(d, b) THEN k < 31 /\ l <= (d * b) \div Pow2(k)
    ELSE IF k = 0 THEN TRUE
    ELSE IF d >= b THEN LeScaled(l, k - 1, Half(d), b)
    ELSE LeScaled(l, k - 1, d, Half(b))

\* f"{x:.kf}" for a float x that is off the exact value v by no more than
\* e[1] / 2^e[2] units of the last decimal written: the values the format
\* can give.  The format rounds the float to the nearest k-decimal number,
\* so it gives the roundings of the numbers that close to v.  With an error
\* of less than half a unit that is one value, unless v is on the middle
\* between two of them or closer to it than the error: then the float's
\* rounding error decides (5.995 is held as 5.994999999999998 and written
\* 5.99, 30.825 as 30.825000000000003 and written 30.83) and both
\* neighbours are possible.  With a larger error, which a float has when the
\* terms it is computed from nearly cancel, it is every value within the
\* error, taken in whole units.  The integer part and the remainder are
\* scaled apart to keep the products small.
Fmt(v, k, e) ==
    LET ip == v[1] \div v[2]
        fx == (v[1] % v[2]) * Pow10(k)
        q == ip * Pow10(k) + (fx \div v[2])
        r == fx % v[2]
        l == Abs(r - (v[2] - r))
    IN  IF e[2] >= 32 \/ e[1] < Pow2(e[2] - 1)
        THEN IF l = 0 \/ LeScaled(l, e[2] - 1, v[2], e[1])
             THEN {Norm(q, Pow10(k)), Norm(q + 1, Pow10(k))}
             ELSE IF r > v[2] - r THEN {Norm(q + 1, Pow10(k))}
             ELSE {Norm(q, Pow10(k))}
        ELSE LET n == (e[1] \div Pow2(e[2] - 1)) \div 2 + 1
             IN  {Norm(j, Pow10(k)) : j \in (q - n)..(q + 1 + n)}

\* The sequences that take their n-th element from the n-th set of cs.
RECURSIVE Outcomes(_)
Outcomes(cs) ==
    IF cs = <<>> THEN {<<>>}
    ELSE {<<h>> \o t : h \in Head(cs), t \in Outcomes(Tail(cs))}

-----------------------------------------------------------------------------
(* The pages and the inventory record.                                      *)

Pages == {"Introduction", "Inventory Inputs", "LCA Calculations",
          "Detailed Analysis", "Results & Comparison"}

\* for ef in [...] of the Inventory Inputs page
Factors == {"wco_collection_ef", "methanol_ef", "koh_ef", "energy_ef",
            "electricity_ef", "wastewater_treat_ef", "glycerol_disposal_ef"}

\* the fields the Inventory Inputs page has a number_input for, besides Factors
Quantities == {"wco_volume_l", "collection_distance_km", "methanol_l", "koh_kg",
               "reaction_energy_mj", "purification_water_l", "drying_energy_mj",
               "distribution_distance_km", "load_capacity_l", "glycerol_kg",
               "wastewater_l"}

Editable == Quantities \cup Factors

Fields == Editable \cup {"fu_mj"}

\* 1 kWh = 3.6 MJ, the conversion the defaults are written with
MJ_PER_KWH == <<18, 5>>

default_factors ==
    [wco_collection_ef |-> <<3, 10>>,
     methanol_ef |-> <<3, 2>>,
     koh_ef |-> <<2, 1>>,
     energy_ef |-> <<1, 2>>,
     electricity_ef |-> <<3, 5>>,
     wastewater_treat_ef |-> <<1, 5>>,
     glycerol_disposal_ef |-> <<1, 10>>]

DefaultInv ==
    [f \in Fields |->
        IF f \in Factors THEN default_factors[f]
        ELSE CASE f = "fu_mj" -> <<1, 1>>
               [] f = "wco_volume_l" -> <<30, 1>>
               [] f = "collection_distance_km" -> <<123, 5>>
               [] f = "methanol_l" -> <<427, 50>>
               [] f = "koh_kg" -> <<9, 20>>
               [] f = "reaction_energy_mj" -> RMul(<<3, 50>>, MJ_PER_KWH)
               [] f = "purification_water_l" -> <<27, 1>>
               [] f = "drying_energy_mj" -> RMul(<<1, 1>>, MJ_PER_KWH)
               [] f = "distribution_distance_km" -> <<223, 1>>
               [] f = "load_capacity_l" -> <<200, 1>>
               [] f = "glycerol_kg" -> <<5, 1>>
               [] f = "wastewater_l" -> <<54, 1>>]

\* What the user may type into the number_input of field f.  The widgets set
\* no min_value, so a negative number and zero are accepted like any other.
Inputs(f) ==
    IF f = "load_capacity_l" THEN {<<-1, 1>>, <<0, 1>>, <<2, 1>>}
    ELSE IF f \in Factors THEN {<<-1, 1>>, <<2, 1>>}
    ELSE {<<-1, 1>>, <<0, 1>>}

\* Records a session can hold after enough edits: every editable field zero
\* with a load capacity of 1; the defaults with the two energies entered in
\* kWh (0.06 and 1.0); and the defaults after six edits with values of
\* Inputs that make the stages cancel (-25.2 + 4.4 + 0 + 20.8).
ZeroInv ==
    [f \in Fields |->
        IF f \in {"load_capacity_l", "fu_mj"} THEN <<1, 1>> ELSE <<0, 1>>]

KWhInv ==
    [DefaultInv EXCEPT !["reaction_energy_mj"] = <<3, 50>>,
                       !["drying_energy_mj"] = <<1, 1>>]

CancelInv ==
    [DefaultInv EXCEPT !["methanol_l"] = <<-1, 1>>,
                       !["reaction_energy_mj"] = <<-1, 1>>,
                       !["drying_energy_mj"] = <<-1, 1>>,
                       !["distribution_distance_km"] = <<0, 1>>,
                       !["glycerol_disposal_ef"] = <<2, 1>>,
                       !["wco_collection_ef"] = <<-1, 1>>]

-----------------------------------------------------------------------------
(* Lines 71-82: the stage emissions, computed at module level on every run. *)

stage1(i) ==
    RAdd(RAdd(RMul(i["collection_distance_km"], i["wco_collection_ef"]),
              RMul(i["methanol_l"], i["methanol_ef"])),
         RMul(i["koh_kg"], i["koh_ef"]))

stage2(i) ==
    RAdd(RAdd(RMul(i["reaction_energy_mj"], i["energy_ef"]),
              RMul(i["purification_water_l"], i["wastewater_treat_ef"])),
         RMul(i["drying_energy_mj"], i["energy_ef"]))

\* stage3 as a slip would have it: the product not divided by the load capacity.
stage3_undivided(i) ==
    RMul(i["distribution_distance_km"], i["wco_collection_ef"])

\* Raises ZeroDivisionError when load_capacity_l is 0 (see Raises73).
stage3(i) ==
    RDiv(RMul(i["distribution_distance_km"], i["wco_collection_ef"]),
         i["load_capacity_l"])

stage5(i) ==
    RAdd(RMul(i["glycerol_kg"], i["glycerol_disposal_ef"]),
         RMul(i["wastewater_l"], i["wastewater_treat_ef"]))

\* total as a slip would have it: the distribution stage left out.
total_without_stage3(s1, s2, s3, s5) == RAdd(RAdd(s1, s2), s5)

total(s1, s2, s3, s5) == RAdd(RAdd(RAdd(s1, s2), s3), s5)

\* The keys of the metrics dict, in insertion (and so iteration) order.
MetricKeys == <<"Stage 1 Acquisition", "Stage 2 Production",
                "Stage 3 Distribution", "Stage 5 End-of-Life", "Total">>

StageKeys == SubSeq(MetricKeys, 1, 4)

\* The metrics dict of a run that got past line 75.
Metrics(i) ==
    LET s1 == stage1(i)
        s2 == stage2(i)
        s3 == stage3(i)
        s5 == stage5(i)
    IN  [k \in {MetricKeys[n] : n \in 1..5} |->
            CASE k = "Stage 1 Acquisition" -> s1
              [] k = "Stage 2 Production" -> s2
              [] k = "Stage 3 Distribution" -> s3
              [] k = "Stage 5 End-of-Life" -> s5
              [] k = "Total" -> total(s1, s2, s3, s5)]

\* No metrics dict: the run raised before line 76.
NoMetrics == <<>>

\* Line 73 divides by inv['load_capacity_l']: float division by zero raises.
Raises73(i) == IsZero(i["load_capacity_l"])

\* The products lines 71-74 add up, stage by stage, as pairs of operands.
Products(i) ==
    [k \in {StageKeys[n] : n \in 1..4} |->
        CASE k = "Stage 1 Acquisition" ->
                <<<<i["collection_distance_km"], i["wco_collection_ef"]>>,
                  <<i["methanol_l"], i["methanol_ef"]>>,
                  <<i["koh_kg"], i["koh_ef"]>>>>
          [] k = "Stage 2 Production" ->
                <<<<i["reaction_energy_mj"], i["energy_ef"]>>,
                  <<i["purification_water_l"], i["wastewater_treat_ef"]>>,
                  <<i["drying_energy_mj"], i["energy_ef"]>>>>
          [] k = "Stage 3 Distribution" ->
                <<<<i["distribution_distance_km"], i["wco_collection_ef"]>>>>
          [] k = "Stage 5 End-of-Life" ->
                <<<<i["glycerol_kg"], i["glycerol_disposal_ef"]>>,
                  <<i["wastewater_l"], i["wastewater_treat_ef"]>>>>]

\* The sum of the sizes of seq's products.
RECURSIVE SumAbs(_)
SumAbs(ps) ==
    IF ps = <<>> THEN Zero
    ELSE RAdd(RAbs(RMul(Head(ps)[1], Head(ps)[2])), SumAbs(Tail(ps)))

\* The size of what each metric of record i is added up from: the sum of
\* the absolute values of its products (for Stage 3, of the quotient).  The
\* float a stage is computed as is off its exact value by no more than 5
\* roundings of that size (the two operands, the product, two additions or
\* the divisor and the division), the total by no more than 8 (three more
\* additions); one rounding is 2^-53 of the value.
Mag(i) ==
    LET ps == Products(i)
        g1 == SumAbs(ps["Stage 1 Acquisition"])
        g2 == SumAbs(ps["Stage 2 Production"])
        g3 == Ratio(SumAbs(ps["Stage 3 Distribution"]),
                    RAbs(i["load_capacity_l"]))
        g5 == SumAbs(ps["Stage 5 End-of-Life"])
    IN  [k \in {MetricKeys[n] : n \in 1..5} |->
            CASE k = "Stage 1 Acquisition" -> g1
              [] k = "Stage 2 Production" -> g2
              [] k = "Stage 3 Distribution" -> g3
              [] k = "Stage 5 End-of-Life" -> g5
              [] k = "Total" -> RAdd(RAdd(RAdd(g1, g2), g3), g5)]

\* The error of the float of a metric in units of its last decimal when it
\* is written with 4 decimals (p = 36) or 2 (p = 43), g the size of what the
\* metric is added up from: 8 roundings of g, 8 * 10^4 / 2^53 <= 1 / 2^36
\* and 8 * 10^2 / 2^53 <= 1 / 2^43.
MetricError(g, p) == ErrorBound(IF IsZero(g) THEN 1 ELSE Ceil(g), 1, p)

\* The error of the float v / total * 100 of a stage in units of its one
\* decimal, g the size of what the stage is added up from, gt that of the
\* total and t the exact total: the stage's error (5 roundings of g) and the
\* two roundings of line 126 taken over the total, and the total's error (8
\* roundings of gt) taken over the total once more; together no more than
\* 16 * 1000 / 2^53 <= 1 / 2^39 times g / |t| * (1 + gt / |t|).
ShareError(g, gt, t) ==
    LET a == Ratio(g, RAbs(t))
    IN  ErrorBound(IF IsZero(a) THEN 1 ELSE Ceil(a),
                   Ceil(Ratio(gt, RAbs(t))) + 1, 39)

RECURSIVE IsPow2(_)
IsPow2(n) == n = 1 \/ (n % 2 = 0 /\ IsPow2(n \div 2))

\* A number a float holds exactly: a binary fraction (0.5, 3.0; not 0.3).
Dyadic(a) == IsPow2(a[2])

\* A product the floats compute without rounding error: a zero operand, or
\* two operands held exactly.
ExactProduct(p) ==
    IsZero(p[1]) \/ IsZero(p[2]) \/ (Dyadic(p[1]) /\ Dyadic(p[2]))

\* The float value of stage k of record i is its exact value: every product
\* is exact and so is the quotient of line 73.
StageExact(i, k) ==
    /\ LET ps == Products(i)[k]
       IN  \A n \in 1..Len(ps) : ExactProduct(ps[n])
    /\ k = "Stage 3 Distribution" =>
          \/ IsZero(stage3(i))
          \/ (Dyadic(i["load_capacity_l"]) /\ Dyadic(stage3(i)))

\* Every stage of record i is computed without rounding error, and so is
\* their sum: the float total is the exact total.
Exact(i) == \A n \in 1..4 : StageExact(i, StageKeys[n])

\* Sixteenths of the sizes of seq's products, each rounded up to a whole
\* number, added up.
RECURSIVE CeilSum(_)
CeilSum(ps) ==
    IF ps = <<>> THEN 0
    ELSE Ceil(RAbs(RMul(Head(ps)[1], Head(ps)[2]))) \div 16 + 1
         + CeilSum(Tail(ps))

\* A whole number that is not below a sixteenth of Mag(i)["Total"].
MagCeil(i) ==
    LET ps == Products(i)
    IN  CeilSum(ps["Stage 1 Acquisition"])
        + CeilSum(ps["Stage 2 Production"])
        + Ceil(Ratio(SumAbs(ps["Stage 3 Distribution"]),
                     RAbs(i["load_capacity_l"]))) \div 16 + 1
        + CeilSum(ps["Stage 5 End-of-Life"])

\* The float total of record i may be nothing but rounding error: the
\* stages are not exact and the exact total is zero or so small beside the
\* terms it is added up from (2^-46 of their size) that the error of the
\* float total (8 roundings of their size) is not small beside it.
Cancelled(i) ==
    LET t == Metrics(i)["Total"]
    IN  /\ ~Exact(i)
        /\ IsZero(t) \/ LeScaled(Abs(t[1]), 42, t[2], MagCeil(i))

\* Line 126 divides each stage value by total and raises when total == 0.0:
\* the truth values `total == 0.0` can have for record i.  An exact total is
\* the float total.  A total that is not exact is not 0.0 when it is larger
\* than its rounding error; when it is cancelled, the float is a rounding
\* residue, which may be 0.0 or a number like -3.6e-15.
Raises126(i) ==
    IF Exact(i) THEN {IsZero(Metrics(i)["Total"])}
    ELSE IF Cancelled(i) THEN {TRUE, FALSE}
    ELSE {FALSE}

\* A float the exact values do not determine: a quotient by a rounding
\* residue, or by a total that is little more.  It is no number of the model.
Residue == <<1, 0>>

\* The error bound e is 64 units or more.
Wide(e) == e[2] <= 24 /\ e[1] >= Pow2(e[2] + 6)

-----------------------------------------------------------------------------
(* Lines 85-327: what each page section writes of the metrics.              *)

\* Lines 119-120: every entry of metrics with four decimals.
WriteMetrics(i) ==
    LET m == Metrics(i)
        g == Mag(i)
    IN  Outcomes([n \in 1..5 |->
            Fmt(m[MetricKeys[n]], 4, MetricError(g[MetricKeys[n]], 36))])

\* Lines 124-126: each stage's share of the total, in percent, one decimal,
\* in a run that line 126 does not end.  When the total is a rounding
\* residue (see Cancelled), a stage that is the float 0.0 has the share 0.0
\* and every other share is a Residue; so is a share whose rounding error
\* may be 64 units of its decimal or more (see Wide).
WriteShares(i) ==
    LET m == Metrics(i)
        g == Mag(i)
    IN  IF IsZero(m["Total"]) \/ Cancelled(i)
        THEN Outcomes([n \in 1..4 |->
                IF IsZero(m[StageKeys[n]]) /\ StageExact(i, StageKeys[n])
                THEN {Zero} ELSE {Residue}])
        ELSE Outcomes([n \in 1..4 |->
                LET e == ShareError(g[StageKeys[n]], g["Total"], m["Total"])
                IN  IF Wide(e) THEN {Residue}
                    ELSE Fmt(RMul(RDiv(m[StageKeys[n]], m["Total"]),
                                  Hundred), 1, e)])

\* Lines 142-159: the total with two decimals, then the pie chart's values.
WriteResults(i) ==
    LET m == Metrics(i)
    IN  Outcomes(<<Fmt(m["Total"], 2, MetricError(Mag(i)["Total"], 43))>>
                 \o [n \in 1..4 |-> {m[StageKeys[n]]}])

\* Displays as a slip would have it: the Inventory Inputs section, which runs
\* the number_inputs after the metrics were computed, writes the metrics too.
Displays_on_inputs_page(page) ==
    page \in {"Inventory Inputs", "LCA Calculations", "Detailed Analysis",
              "Results & Comparison"}

\* Whether a page section reads metrics at all.
Displays(page) ==
    page \in {"LCA Calculations", "Detailed Analysis", "Results & Comparison"}

\* What the section of `page` can write for record i before it ends or
\* raises, in a run where `total == 0.0` is z: a set of sequences, of more
\* than one where a value is on a tie.
Written(page, i, z) ==
    IF ~Displays(page) THEN {<<>>}
    ELSE CASE page = "LCA Calculations" -> WriteMetrics(i)
           [] page = "Detailed Analysis" ->
                IF z THEN WriteMetrics(i)
                ELSE {a \o b : a \in WriteMetrics(i), b \in WriteShares(i)}
           [] page = "Results & Comparison" -> WriteResults(i)
           [] OTHER -> WriteMetrics(i)

\* The truth values `total == 0.0` can have in a run of the section of
\* `page`: line 126 is reached on the Detailed Analysis page only.
RaisesOn(page, i) ==
    IF page = "Detailed Analysis" THEN Raises126(i) ELSE {FALSE}

\* Everything the section of `page` can write for record i.
WrittenAny(page, i) == UNION {Written(page, i, z) : z \in RaisesOn(page, i)}

\* Lines 98-115: every number_input returns its widget's value and the script
\* stores it in inv; `edit` is <<>> or the <<field, value>> the user changed.
\* The widgets have no key, so a widget's identity includes its value
\* argument.  The widget on screen for field `stale` was created with the
\* value inv held before the last edit; the call number_input(value=inv[f])
\* now names another widget, which returns its default, inv[f]: an edit typed
\* into the widget on screen is dropped.
AssignWidgets(i, edit, stale) ==
    IF edit = <<>> \/ edit[1] = stale THEN i
    ELSE [i EXCEPT ![edit[1]] = edit[2]]

\* The field whose widget on screen, after a run of the Inventory Inputs
\* section, was created with a value inv no longer holds: the field just
\* edited, unless that edit was dropped.
StaleAfter(edit, stale) ==
    IF edit = <<>> \/ edit[1] = stale THEN "none" ELSE edit[1]

-----------------------------------------------------------------------------
(* One complete run of the script with the radio at `page`.                 *)

RunScript(page, edit) ==
    /\ main_menu' = page
    /\ IF Raises73(inv)
       THEN \* the run ends at line 73: no metrics, no page section
            /\ metrics' = NoMetrics
            /\ shown' = <<>>
            /\ exc' = "ZeroDivisionError"
            /\ exc_line' = 73
            /\ inv' = inv
            /\ stale_widget' = "none"
       ELSE \E z \in RaisesOn(page, inv) :
                /\ metrics' = Metrics(inv)
                /\ shown' \in Written(page, inv, z)
                /\ inv' = IF page = "Inventory Inputs"
                          THEN AssignWidgets(inv, edit, stale_widget) ELSE inv
                /\ stale_widget' = IF page = "Inventory Inputs"
                                   THEN StaleAfter(edit, stale_widget)
                                   ELSE "none"
                /\ IF z
                   THEN exc' = "ZeroDivisionError" /\ exc_line' = 126
                   ELSE exc' = "None" /\ exc_line' = 0

\* The first run of a session: lines 37-59 create inv, the radio is at its
\* first option.
Init ==
    /\ inv = DefaultInv
    /\ main_menu = "Introduction"
    /\ metrics = Metrics(DefaultInv)
    /\ shown = <<>>
    /\ exc = "None"
    /\ exc_line = 0
    /\ edits = 0
    /\ stale_widget = "none"

\* The user picks another page in the sidebar radio (rendered at line 14,
\* before anything can raise, so it stays usable after a failed run).
Navigate(page) ==
    /\ page # main_menu
    /\ RunScript(page, <<>>)
    /\ UNCHANGED edits

\* The user reruns the script without changing any widget.
Rerun ==
    /\ RunScript(main_menu, <<>>)
    /\ UNCHANGED edits

\* The user types v, another value than the one shown, into the number_input
\* of field f; the widgets exist only if the last run rendered the Inventory
\* Inputs section.
EditField(f, v) ==
    /\ main_menu = "Inventory Inputs"
    /\ exc = "None"
    /\ edits < MaxEdits
    /\ v # inv[f]
    /\ RunScript("Inventory Inputs", <<f, v>>)
    /\ edits' = edits + 1

Next ==
    \/ \E page \in Pages : Navigate(page)
    \/ Rerun
    \/ \E f \in Editable : \E v \in Inputs(f) : EditField(f, v)

Spec == Init /\ [][Next]_vars

\* The same session, picked up after the edits that lead to one of the
\* records above: used for the properties of the calculation on records
\* that are many edits away from the defaults.
CalcInit ==
    /\ inv \in {DefaultInv, ZeroInv, KWhInv, CancelInv}
    /\ main_menu = "Introduction"
    /\ metrics = Metrics(inv)
    /\ shown = <<>>
    /\ exc = "None"
    /\ exc_line = 0
    /\ edits = 0
    /\ stale_widget = "none"

CalcSpec == CalcInit /\ [][Next]_vars

-----------------------------------------------------------------------------
(* Helpers of the properties.                                               *)

\* The data model's invariant on an inventory record.
Valid(i) ==
    /\ \A f \in Fields : RLe(Zero, i[f])
    /\ RLt(Zero, i["load_capacity_l"])

\* The last run computed its metrics from inv as it stands now: it got past
\* line 82 and was not a run of the Inventory Inputs page, which stores the
\* widgets' values in inv after the metrics were computed.
ComputedFromInv == metrics # NoMetrics /\ main_menu # "Inventory Inputs"

\* An energy given in MJ, expressed in kWh, the unit of energy_ef.
ToKWh(e) == RDiv(e, MJ_PER_KWH)

\* Factor f entered anew on the Inventory Inputs page with value v.
Raised(i, f, v) == [i EXCEPT ![f] = v]

\* The metrics a factor contributes to.
Contributes(f) ==
    CASE f = "wco_collection_ef" ->
            {"Stage 1 Acquisition", "Stage 3 Distribution", "Total"}
      [] f \in {"methanol_ef", "koh_ef"} -> {"Stage 1 Acquisition", "Total"}
      [] f = "energy_ef" -> {"Stage 2 Production", "Total"}
      [] f = "wastewater_treat_ef" ->
            {"Stage 2 Production", "Stage 5 End-of-Life", "Total"}
      [] f = "glycerol_disposal_ef" -> {"Stage 5 End-of-Life", "Total"}
      [] OTHER -> {}

\* Values an emission factor is compared at: those of Inputs, its default,
\* and one above them all (the number_input of line 115 takes any number).
RaiseTo(f) == Inputs(f) \cup {DefaultInv[f], <<3, 1>>}

\* Record i against every record that differs from it only in one emission
\* factor, entered larger: no stage value that factor contributes to is
\* smaller, nor is the total.
MonotoneAt(i) ==
    \A f \in Factors : \A v \in RaiseTo(f) :
        RLe(i[f], v) =>
            \A k \in Contributes(f) :
                RLe(Metrics(i)[k], Metrics(Raised(i, f, v))[k])

\* Every quantity of the record is non-negative and the load capacity is
\* positive; the emission factors are any numbers.
QuantitiesValid(i) ==
    /\ \A q \in Quantities : RLe(Zero, i[q])
    /\ RLt(Zero, i["load_capacity_l"])

-----------------------------------------------------------------------------
(* The properties.                                                          *)

\* C1: whenever a run has built the metrics record, its Total equals the sum
\* of the four stage values of the same record (Stage 1, 2, 3 and 5), no
\* other term and no stage left out.
C1_TotalIsSumOfStages ==
    metrics # NoMetrics =>
        metrics["Total"] =
            RAdd(RAdd(RAdd(metrics["Stage 1 Acquisition"],
                           metrics["Stage 2 Production"]),
                      metrics["Stage 3 Distribution"]),
                 metrics["Stage 5 End-of-Life"])

C1_Witness ==
    /\ edits > 0
    /\ main_menu = "LCA Calculations"
    /\ Valid(inv)
    /\ metrics # NoMetrics
    /\ \A n \in 1..4 : ~IsZero(metrics[StageKeys[n]])

\* C2: for every valid inventory record the acquisition value is
\* (collected volume / load capacity) x collection distance x collection
\* factor + methanol x methanol factor + catalyst x catalyst factor.
C2_AcquisitionNormalisedByLoad ==
    (ComputedFromInv /\ Valid(inv)) =>
        metrics["Stage 1 Acquisition"] =
            RAdd(RAdd(RMul(RMul(RDiv(inv["wco_volume_l"], inv["load_capacity_l"]),
                                inv["collection_distance_km"]),
                           inv["wco_collection_ef"]),
                      RMul(inv["methanol_l"], inv["methanol_ef"])),
                 RMul(inv["koh_kg"], inv["koh_ef"]))

\* C3: a run that computes the stage emissions from a record whose load
\* capacity is 0 or negative ends with an InvalidInput error and produces no
\* metrics record.
C3_NonPositiveLoadIsInvalidInput ==
    (main_menu # "Inventory Inputs" /\ RLe(inv["load_capacity_l"], Zero)) =>
        (exc = "InvalidInput" /\ metrics = NoMetrics)

\* C4: a run that computes from a record with a negative field is rejected
\* with InvalidInput; no stage value or total is produced or displayed.
C4_NegativeFieldIsRejected ==
    (main_menu # "Inventory Inputs" /\ \E f \in Fields : RLt(inv[f], Zero)) =>
        (exc = "InvalidInput" /\ metrics = NoMetrics /\ shown = <<>>)

\* C5: an invalid input never crashes the session: every run, whatever was
\* entered before it, reaches its page section (none aborts at line 73,
\* ahead of every section).
C5_EveryRunReachesItsPage == exc_line # 73

\* C5, what the code does instead: inv is only changed by the Inventory
\* Inputs section, which a run that aborts at line 73 never reaches, so once
\* a run has aborted there every later run of the session does.
C5_AbortedRunsStayAborted == [][exc_line = 73 => exc_line' = 73]_vars

\* C6: whatever a page displays of the metrics is what the stage formulas
\* give, formatted, for the inventory record as it stands in session state.
C6_DisplayedFromCurrentRecord ==
    shown # <<>> =>
        /\ ~Raises73(inv)
        /\ shown \in WrittenAny(main_menu, inv)

C6_Witness ==
    /\ edits > 0
    /\ inv # DefaultInv
    /\ main_menu \in {"LCA Calculations", "Detailed Analysis",
                      "Results & Comparison"}
    /\ shown # <<>>
    /\ shown \notin WrittenAny(main_menu, DefaultInv)

\* C7: any two inventory records that differ only in one emission factor
\* and for which lines 71-75 compute the stages (the load capacity is not 0):
\* the record with the larger factor has a value at least as large in every
\* stage the factor contributes to, and a total at least as large.
C7_MonotoneInEachFactor == ~Raises73(inv) => MonotoneAt(inv)

\* C7, what the code does instead: the stages are monotone in each factor
\* for the records whose quantities are non-negative and whose load capacity
\* is positive, and only for those: each stage is a sum of products of a
\* factor and a quantity, and nothing keeps a quantity from being negative.
C7_MonotoneOnNonNegativeQuantities == QuantitiesValid(inv) => MonotoneAt(inv)

\* A session in which the code's own monotonicity is put to the test: a
\* raised factor was stored for a record with non-negative quantities, and
\* the record now gives a larger total than the run before the edit computed.
C7_RaisedFactorStored ==
    /\ main_menu = "Inventory Inputs"
    /\ metrics # NoMetrics
    /\ QuantitiesValid(inv)
    /\ \E f \in Factors : \E old \in RaiseTo(f) :
            /\ RLt(old, inv[f])
            /\ metrics = Metrics(Raised(inv, f, old))
            /\ RLt(metrics["Total"], Metrics(inv)["Total"])

\* C8: for every valid record the production value is reaction energy x
\* energy factor + purification water x wastewater factor + drying energy x
\* energy factor, the energies taken in the unit of the energy factor (kWh).
C8_ProductionInOneEnergyUnit ==
    (ComputedFromInv /\ Valid(inv)) =>
        metrics["Stage 2 Production"] =
            RAdd(RAdd(RMul(ToKWh(inv["reaction_energy_mj"]), inv["energy_ef"]),
                      RMul(inv["purification_water_l"],
                           inv["wastewater_treat_ef"])),
                 RMul(ToKWh(inv["drying_energy_mj"]), inv["energy_ef"]))

\* C9: for every valid record, the distribution value is (distribution
\* distance x collection factor) / load capacity: multiplied back by the load
\* capacity it gives distribution distance x collection factor.
C9_DistributionDividedByLoad ==
    (ComputedFromInv /\ Valid(inv)) =>
        RMul(metrics["Stage 3 Distribution"], inv["load_capacity_l"]) =
            RMul(inv["distribution_distance_km"], inv["wco_collection_ef"])

C9_Witness ==
    /\ edits > 0
    /\ ComputedFromInv
    /\ Valid(inv)
    /\ inv["load_capacity_l"] # DefaultInv["load_capacity_l"]
    /\ ~IsZero(metrics["Stage 3 Distribution"])

\* C10: for every valid record, the run of the Detailed Analysis page ends
\* without an exception and writes the five metrics and the four shares.
C10_DetailedAnalysisCompletes ==
    (main_menu = "Detailed Analysis" /\ Valid(inv)) =>
        (exc = "None" /\ Len(shown) = 9)

====
